---------------------------- MODULE Spec2Model ----------------------------
(***************************************************************************)
(* sonde-lora-bridge: the Threshold Batch Scheduler (WorkloadManager.py)   *)
(* and the Telemetry Compaction Codec (DataOptimizer.py).                  *)
(*                                                                         *)
(* WorkloadManager holds no lock.  Its methods run on the threads that     *)
(* call addWork / flush and on the timer threads that _start_timer         *)
(* creates, so the model interleaves them statement by statement: a        *)
(* thread's pc holds the line of WorkloadManager.py it executes next.      *)
(***************************************************************************)
EXTENDS Integers, Sequences, FiniteSets, TLC

(* ------------------------------ bounds -------------------------------- *)
NumCallers == 1       \* threads that call addWork / flush
MaxTimers == 2        \* timer threads alive at the same time
NumItems == 2         \* distinct data values handed to addWork
MaxBuf == 3           \* addWork is not called with this many items buffered
CountThreshold == 2   \* WorkloadManager(count_threshold=...)
TimeThreshold == 1    \* WorkloadManager(time_threshold=...), in clock ticks

(* ------------------------- program constants -------------------------- *)
NoneVal == -1         \* start_time = None
NoThread == 0         \* _timer_thread = None

Timers == 1..MaxTimers
Callers == {100 + i : i \in 1..NumCallers}
Threads == Timers \cup Callers
Items == 1..NumItems

callback == TRUE      \* a consumer is registered (callback=self.process_data)

VARIABLES
  counter,        \* self.counter
  start_time,     \* self.start_time: NoneVal or the clock value at arming
  data_buffer,    \* self.data_buffer
  timer_thread,   \* self._timer_thread: NoThread or a timer thread
  stop_event,     \* self._stop_event.is_set()
  now,            \* time.time(), counted from the latest arming
  pc,             \* per thread: the line it executes next
  elapsed,        \* per timer thread: the local `elapsed` of _timer_check
  op,             \* per caller: the call in progress (history of that call)
  fire,           \* history: the invocation of the consumer made by the latest step, if any
  ret,            \* history: the return of addWork / flush made by the latest step, if any
  winFires,       \* history: invocations by addWork/timer since the buffer was last cleared
  winItems        \* history: the items received since the buffer was last cleared

VARIABLES
  data,           \* DataOptimizer: the record handed to to_cbor2
  cbor_bytes,     \* the frame to_cbor2 returned
  decoded_data,   \* the record from_cbor2 returned
  cstage,         \* how far the round trip, or the reception, has come
  logged,         \* SondeLoraClient: the record handed to log_packet / send_packet
  optimized,      \* the compact record cbor2.loads returned, handed to decode_json
  channel,        \* SondeLoraClient.channel (None: every channel)
  source_device_id, \* SondeLoraClient.source_device_id (None: every sender)
  packet          \* the packet handed to on_message_received

VARIABLES
  device,         \* SondeLoraBridge.meshtastic_client.device is set (is_connected())
  target_device_id, \* SondeLoraBridge.target_device_id
  run,            \* history: what process_data did in the latest step, if it ran
  closed,         \* meshtastic_client.disconnect() has been called
  stop_pc,        \* SondeLoraBridge.stop(): where the call stands
  pending,        \* history: an item was buffered and not handed to the consumer yet
  stop_owes       \* history: stop() was called with such an item, not handed over since

schedVars == <<counter, start_time, data_buffer, timer_thread, stop_event, now,
               pc, elapsed, op, fire, ret, winFires, winItems>>
codecVars == <<data, cbor_bytes, decoded_data, cstage, logged, optimized,
               channel, source_device_id, packet>>
bridgeVars == <<device, target_device_id, run, closed, stop_pc, pending,
                stop_owes>>
vars == <<schedVars, codecVars, bridgeVars>>

batchState == <<counter, start_time, data_buffer>>
managerState == <<counter, start_time, data_buffer, stop_event, timer_thread>>

NoOp == [kind |-> "none", fired |-> 0]
NoRet == [kind |-> "none", fired |-> 0, raised |-> FALSE, th |-> 0]
NoFire == [by |-> "none", arg |-> 0, latest |-> 0, cnt |-> 0,
           cond |-> TRUE, ok |-> TRUE, th |-> 0]

is_alive(t) == t \in Timers /\ pc[t] # "none"

Idle == counter = 0 /\ start_time = NoneVal /\ data_buffer = <<>>

(* ------------------------------ __init__ ------------------------------ *)
SchedInit ==
  /\ counter = 0
  /\ start_time = NoneVal
  /\ data_buffer = <<>>
  /\ timer_thread = NoThread
  /\ stop_event = FALSE
  /\ now = 0
  /\ pc = [th \in Threads |-> IF th \in Callers THEN "idle" ELSE "none"]
  /\ elapsed = [t \in Timers |-> 0]
  /\ op = [c \in Callers |-> NoOp]
  /\ fire = NoFire
  /\ ret = NoRet
  /\ winFires = 0
  /\ winItems = <<>>

\* A step that does not invoke the consumer.  (No step of the scheduler
\* touches the codec.)
NoInvoke == fire' = NoFire /\ UNCHANGED codecVars

\* A step inside a call: no invocation, no return.
Inside == NoInvoke /\ ret' = NoRet /\ op' = op

Goto(th, l) == pc' = [pc EXCEPT ![th] = l]

\* The outermost frame ends, by a return or by an exception nobody catches
\* (`raised`).  A caller is back in its own code, free to call again; a timer
\* thread has returned from _trigger_callback to the break of line 94, or
\* died of the exception: either way the thread ends.
Leave(th, fired, raised) ==
  /\ Goto(th, IF th \in Callers THEN "idle" ELSE "none")
  /\ IF th \in Callers
     THEN /\ ret' = [kind |-> op[th].kind, fired |-> fired,
                     raised |-> raised, th |-> th]
          /\ op' = [op EXCEPT ![th] = NoOp]
     ELSE ret' = NoRet /\ op' = op

(* ------------------------------ addWork ------------------------------- *)
\* lines 31-39: the call and data_buffer.append(data)
AddWorkCall(c, d) ==
  /\ pc[c] = "idle"
  /\ Len(data_buffer) < MaxBuf /\ counter < MaxBuf
  /\ data_buffer' = Append(data_buffer, d)
  /\ winItems' = Append(winItems, d)
  /\ op' = [op EXCEPT ![c] = [kind |-> "addWork", fired |-> 0]]
  /\ Goto(c, "L40")
  /\ NoInvoke /\ ret' = NoRet
  /\ UNCHANGED <<counter, start_time, timer_thread, stop_event, now, elapsed,
                 winFires>>

\* line 40: self.counter += 1
L40(c) ==
  /\ pc[c] = "L40"
  /\ counter' = counter + 1
  /\ Goto(c, "L43")
  /\ Inside
  /\ UNCHANGED <<start_time, data_buffer, timer_thread, stop_event, now, elapsed,
                 winFires, winItems>>

\* line 43: if self.counter == 1
L43(c) ==
  /\ pc[c] = "L43"
  /\ Goto(c, IF counter = 1 THEN "L44" ELSE "L52")
  /\ Inside
  /\ UNCHANGED <<counter, start_time, data_buffer, timer_thread, stop_event, now,
                 elapsed, winFires, winItems>>

\* line 44: self.start_time = time.time().  The clock is counted from here:
\* the code only ever uses time.time() - self.start_time.
L44(c) ==
  /\ pc[c] = "L44"
  /\ now' = 0
  /\ start_time' = now'
  /\ Goto(c, "L72")
  /\ Inside
  /\ UNCHANGED <<counter, data_buffer, timer_thread, stop_event, elapsed,
                 winFires, winItems>>

(* ---------------------------- _start_timer ---------------------------- *)
\* line 72: self._stop_event.clear()
L72(c) ==
  /\ pc[c] = "L72"
  /\ stop_event' = FALSE
  /\ Goto(c, "L73")
  /\ Inside
  /\ UNCHANGED <<counter, start_time, data_buffer, timer_thread, now, elapsed,
                 winFires, winItems>>

\* line 73: if self._timer_thread is None or not self._timer_thread.is_alive()
L73(c) ==
  /\ pc[c] = "L73"
  /\ Goto(c, IF timer_thread = NoThread \/ ~is_alive(timer_thread)
             THEN "L74" ELSE "L52")
  /\ Inside
  /\ UNCHANGED <<counter, start_time, data_buffer, timer_thread, stop_event, now,
                 elapsed, winFires, winItems>>

\* lines 74-75: create the thread and start it at the head of _timer_check.
\* The new thread takes the lowest free slot.
L74(c) ==
  /\ pc[c] = "L74"
  /\ \E t \in Timers :
       /\ ~is_alive(t)
       /\ \A u \in Timers : u < t => is_alive(u)
       /\ timer_thread' = t
       /\ pc' = [pc EXCEPT ![t] = "L89", ![c] = "L52"]
       /\ elapsed' = [elapsed EXCEPT ![t] = 0]
  /\ Inside
  /\ UNCHANGED <<counter, start_time, data_buffer, stop_event, now,
                 winFires, winItems>>

(* ----------------------- _check_counter_threshold --------------------- *)
\* line 52: if self.counter >= self.count_threshold
CounterReached_Strict == counter > CountThreshold
CounterReached == counter >= CountThreshold

L52(c) ==
  /\ pc[c] = "L52"
  /\ IF CounterReached
     THEN Goto(c, "L57") /\ ret' = NoRet /\ op' = op
     ELSE Leave(c, op[c].fired, FALSE)
  /\ NoInvoke
  /\ UNCHANGED <<counter, start_time, data_buffer, timer_thread, stop_event, now,
                 elapsed, winFires, winItems>>

(* ------------------------------- flush -------------------------------- *)
\* line 68: if self.counter > 0
FlushCond_AtThreshold == counter >= CountThreshold
FlushCond == counter > 0

\* lines 66-69: the call, the test, and the return when there is nothing to flush
FlushCall(c) ==
  /\ pc[c] = "idle"
  /\ IF FlushCond
     THEN /\ op' = [op EXCEPT ![c] = [kind |-> "flush", fired |-> 0]]
          /\ Goto(c, "L57")
          /\ ret' = NoRet
     ELSE /\ ret' = [kind |-> "flush", fired |-> 0, raised |-> FALSE, th |-> c]
          /\ UNCHANGED <<op, pc>>
  /\ NoInvoke
  /\ UNCHANGED <<counter, start_time, data_buffer, timer_thread, stop_event, now,
                 elapsed, winFires, winItems>>

(* -------------------------- _trigger_callback ------------------------- *)
\* line 57: if self.callback and self.data_buffer
L57(th) ==
  /\ pc[th] = "L57"
  /\ Goto(th, IF callback /\ data_buffer # <<>> THEN "L58" ELSE "L61")
  /\ Inside
  /\ UNCHANGED <<counter, start_time, data_buffer, timer_thread, stop_event, now,
                 elapsed, winFires, winItems>>

\* line 58: the argument self.data_buffer[-1]
CallbackArg_Oldest == data_buffer[1]
CallbackArg == data_buffer[Len(data_buffer)]

\* The most recently received item of the window that is open.
Latest == IF winItems = <<>> THEN 0 ELSE winItems[Len(winItems)]

\* Who fires: the timer thread, or the call the caller is in.
FireKind(th) == IF th \in Timers THEN "timer" ELSE op[th].kind

\* The trigger condition of the window the buffer holds, at this instant.
TriggerCond ==
  \/ counter >= CountThreshold
  \/ Len(data_buffer) >= CountThreshold
  \/ start_time # NoneVal /\ now - start_time >= TimeThreshold

\* line 58: self.callback(self.data_buffer[-1]).  The buffer may have been
\* emptied since line 57 (IndexError); the consumer may raise.  Nothing in
\* _trigger_callback, addWork, flush or _timer_check catches either.
L58(th) ==
  /\ pc[th] = "L58"
  /\ IF data_buffer = <<>>
     THEN /\ Leave(th, 0, TRUE)
          /\ NoInvoke
          /\ UNCHANGED winFires
     ELSE \E ok \in BOOLEAN :
          /\ UNCHANGED codecVars
          /\ fire' = [by |-> FireKind(th), arg |-> CallbackArg,
                      latest |-> Latest, cnt |-> counter,
                      cond |-> TriggerCond, ok |-> ok, th |-> th]
          /\ winFires' = IF ok /\ FireKind(th) # "flush" /\ winFires < 2
                         THEN winFires + 1 ELSE winFires
          /\ IF ok
             THEN /\ Goto(th, "L61")
                  /\ ret' = NoRet
                  /\ op' = IF th \in Callers
                           THEN [op EXCEPT ![th].fired = 1] ELSE op
             ELSE Leave(th, 1, TRUE)
  /\ UNCHANGED <<counter, start_time, data_buffer, timer_thread, stop_event, now,
                 elapsed, winItems>>

\* line 61: self.counter = 0
L61(th) ==
  /\ pc[th] = "L61"
  /\ counter' = 0
  /\ Goto(th, "L62")
  /\ Inside
  /\ UNCHANGED <<start_time, data_buffer, timer_thread, stop_event, now, elapsed,
                 winFires, winItems>>

\* line 62: self.start_time = None.  The clock is not read before the next
\* arming restarts its count, so its value is dropped here.
L62(th) ==
  /\ pc[th] = "L62"
  /\ start_time' = NoneVal
  /\ now' = 0
  /\ Goto(th, "L63")
  /\ Inside
  /\ UNCHANGED <<counter, data_buffer, timer_thread, stop_event, elapsed,
                 winFires, winItems>>

\* line 63: self.data_buffer = [].  The window the buffer held is closed.
L63(th) ==
  /\ pc[th] = "L63"
  /\ data_buffer' = <<>>
  /\ winFires' = 0
  /\ winItems' = <<>>
  /\ Goto(th, "L78")
  /\ Inside
  /\ UNCHANGED <<counter, start_time, timer_thread, stop_event, now, elapsed>>

(* ----------------------------- _stop_timer ---------------------------- *)
\* line 78: self._stop_event.set()
L78(th) ==
  /\ pc[th] = "L78"
  /\ stop_event' = TRUE
  /\ Goto(th, "L80")
  /\ Inside
  /\ UNCHANGED <<counter, start_time, data_buffer, timer_thread, now, elapsed,
                 winFires, winItems>>

\* lines 80-84: the thread is set, alive, and not the current thread
JoinNeeded(th) ==
  timer_thread # NoThread /\ is_alive(timer_thread) /\ th # timer_thread

L80(th) ==
  /\ pc[th] = "L80"
  /\ Goto(th, IF JoinNeeded(th) THEN "L85" ELSE "L86")
  /\ Inside
  /\ UNCHANGED <<counter, start_time, data_buffer, timer_thread, stop_event, now,
                 elapsed, winFires, winItems>>

\* line 85: self._timer_thread.join(timeout=0.1).  The attribute is read
\* again: it is None if another thread passed line 86 meanwhile
\* (AttributeError).  Otherwise the join ends when the thread has ended or
\* when the timeout has run out, so it can return in every state.
L85(th) ==
  /\ pc[th] = "L85"
  /\ IF timer_thread = NoThread
     THEN Leave(th, IF th \in Callers THEN op[th].fired ELSE 0, TRUE)
     ELSE Goto(th, "L86") /\ ret' = NoRet /\ op' = op
  /\ NoInvoke
  /\ UNCHANGED <<counter, start_time, data_buffer, timer_thread, stop_event, now,
                 elapsed, winFires, winItems>>

\* line 86: self._timer_thread = None, and the return
L86(th) ==
  /\ pc[th] = "L86"
  /\ timer_thread' = NoThread
  /\ Leave(th, IF th \in Callers THEN op[th].fired ELSE 0, FALSE)
  /\ NoInvoke
  /\ UNCHANGED <<counter, start_time, data_buffer, stop_event, now, elapsed,
                 winFires, winItems>>

(* ----------------------------- _timer_check --------------------------- *)
\* line 89 (reached again after the sleep of line 95):
\* while not self._stop_event.is_set()
L89(t) ==
  /\ pc[t] = "L89"
  /\ Goto(t, IF stop_event THEN "none" ELSE "L90")
  /\ Inside
  /\ UNCHANGED <<counter, start_time, data_buffer, timer_thread, stop_event, now,
                 elapsed, winFires, winItems>>

\* line 90: if self.start_time is not None
L90(t) ==
  /\ pc[t] = "L90"
  /\ Goto(t, IF start_time # NoneVal THEN "L91" ELSE "L89")
  /\ Inside
  /\ UNCHANGED <<counter, start_time, data_buffer, timer_thread, stop_event, now,
                 elapsed, winFires, winItems>>

\* line 91: elapsed = time.time() - self.start_time.  start_time is read
\* again: with None the subtraction raises TypeError and the thread ends.
L91(t) ==
  /\ pc[t] = "L91"
  /\ IF start_time = NoneVal
     THEN Goto(t, "none") /\ elapsed' = elapsed
     ELSE Goto(t, "L92") /\ elapsed' = [elapsed EXCEPT ![t] = now - start_time]
  /\ Inside
  /\ UNCHANGED <<counter, start_time, data_buffer, timer_thread, stop_event, now,
                 winFires, winItems>>

\* line 92: if elapsed >= self.time_threshold (then lines 93-94), else line 95
TimeReached(t) == elapsed[t] >= TimeThreshold

L92(t) ==
  /\ pc[t] = "L92"
  /\ Goto(t, IF TimeReached(t) THEN "L57" ELSE "L89")
  /\ elapsed' = [elapsed EXCEPT ![t] = 0]
  /\ Inside
  /\ UNCHANGED <<counter, start_time, data_buffer, timer_thread, stop_event, now,
                 winFires, winItems>>

(* -------------------------------- time -------------------------------- *)
\* The clock advances.  Past the threshold a further tick changes nothing the
\* code can observe, and neither does a tick while start_time is None.
Tick ==
  /\ start_time # NoneVal
  /\ now - start_time < TimeThreshold
  /\ now' = now + 1
  /\ Inside
  /\ UNCHANGED <<counter, start_time, data_buffer, timer_thread, stop_event,
                 pc, elapsed, winFires, winItems>>

(* ----------------------------- the program ---------------------------- *)
CallerStep(c) ==
  \/ \E d \in Items : AddWorkCall(c, d)
  \/ FlushCall(c)
  \/ L40(c) \/ L43(c) \/ L44(c) \/ L72(c) \/ L73(c) \/ L74(c) \/ L52(c)

TriggerStep(th) ==
  \/ L57(th) \/ L58(th) \/ L61(th) \/ L62(th) \/ L63(th)
  \/ L78(th) \/ L80(th) \/ L85(th) \/ L86(th)

TimerStep(t) ==
  \/ L89(t) \/ L90(t) \/ L91(t) \/ L92(t)

CodecOff ==
  /\ data = <<>> /\ cbor_bytes = <<>> /\ decoded_data = <<>> /\ cstage = "off"
  /\ logged = <<>> /\ optimized = <<>>
  /\ channel = <<>> /\ source_device_id = <<>> /\ packet = <<>>

\* A WorkloadManager on its own: no bridge around it.
NoRun == [raw |-> "none", connected |-> FALSE, sends |-> <<>>,
          raised |-> "none", returned |-> TRUE]

BridgeOff ==
  /\ device = FALSE /\ target_device_id = <<>> /\ run = NoRun
  /\ closed = FALSE /\ stop_pc = "off" /\ pending = FALSE /\ stop_owes = FALSE

Init == SchedInit /\ CodecOff /\ BridgeOff

\* The manager runs on its own: nothing of a bridge changes.
Alone == UNCHANGED bridgeVars

Next ==
  \/ \E c \in Callers :
       \/ \E d \in Items : AddWorkCall(c, d) /\ Alone
       \/ FlushCall(c) /\ Alone
       \/ L40(c) /\ Alone
       \/ L43(c) /\ Alone
       \/ L44(c) /\ Alone
       \/ L72(c) /\ Alone
       \/ L73(c) /\ Alone
       \/ L74(c) /\ Alone
       \/ L52(c) /\ Alone
  \/ \E th \in Threads :
       \/ L57(th) /\ Alone
       \/ L58(th) /\ Alone
       \/ L61(th) /\ Alone
       \/ L62(th) /\ Alone
       \/ L63(th) /\ Alone
       \/ L78(th) /\ Alone
       \/ L80(th) /\ Alone
       \/ L85(th) /\ Alone
       \/ L86(th) /\ Alone
  \/ \E t \in Timers :
       \/ L89(t) /\ Alone
       \/ L90(t) /\ Alone
       \/ L91(t) /\ Alone
       \/ L92(t) /\ Alone
  \/ Tick /\ Alone

Spec == Init /\ [][Next]_vars

(* ------------------------ serialized executions ----------------------- *)
\* A thread is inside an operation on the Batch State: a caller inside
\* addWork / flush, a timer thread past the loop head of _timer_check.
InOp(th) == IF th \in Callers THEN pc[th] # "idle" ELSE pc[th] \notin {"none", "L89"}

Serialized == Cardinality({th \in Threads : InOp(th)}) <= 1

Quiescent == \A th \in Threads : ~InOp(th)

\* The executions in which the operations do not overlap: calls made one
\* after the other while no timer thread is inside a poll, timer polls
\* between them.
SeqNext ==
  \/ \E c \in Callers :
       \/ \E d \in Items : Quiescent /\ AddWorkCall(c, d) /\ Alone
       \/ Quiescent /\ FlushCall(c) /\ Alone
       \/ L40(c) /\ Serialized' /\ Alone
       \/ L43(c) /\ Serialized' /\ Alone
       \/ L44(c) /\ Serialized' /\ Alone
       \/ L72(c) /\ Serialized' /\ Alone
       \/ L73(c) /\ Serialized' /\ Alone
       \/ L74(c) /\ Serialized' /\ Alone
       \/ L52(c) /\ Serialized' /\ Alone
  \/ \E th \in Threads :
       \/ L57(th) /\ Serialized' /\ Alone
       \/ L58(th) /\ Serialized' /\ Alone
       \/ L61(th) /\ Serialized' /\ Alone
       \/ L62(th) /\ Serialized' /\ Alone
       \/ L63(th) /\ Serialized' /\ Alone
       \/ L78(th) /\ Serialized' /\ Alone
       \/ L80(th) /\ Serialized' /\ Alone
       \/ L85(th) /\ Serialized' /\ Alone
       \/ L86(th) /\ Serialized' /\ Alone
  \/ \E t \in Timers :
       \/ L89(t) /\ Serialized' /\ Alone
       \/ L90(t) /\ Serialized' /\ Alone
       \/ L91(t) /\ Serialized' /\ Alone
       \/ L92(t) /\ Serialized' /\ Alone
  \/ Tick /\ Serialized' /\ Alone

SeqSpec == Init /\ [][SeqNext]_vars

(* ------------------------------ scheduling ---------------------------- *)
\* A thread that is inside a call, or inside _timer_check, takes its next
\* step.  Whether addWork or flush is called again is up to the producer.
Running(th) ==
  /\ \/ th \in Callers /\ (L40(th) \/ L43(th) \/ L44(th) \/ L72(th)
                            \/ L73(th) \/ L74(th) \/ L52(th))
     \/ TriggerStep(th)
     \/ th \in Timers /\ TimerStep(th)
  /\ Alone

\* Every thread keeps being scheduled and time passes.
FairSpec ==
  Spec /\ (\A th \in Threads : WF_vars(Running(th))) /\ WF_vars(Tick /\ Alone)

(* ======================= DataOptimizer (the codec) ==================== *)
(* Values.  Every Python value of the model is a record of one shape:       *)
(*   bool   n = 1 / 0                                                       *)
(*   int    n = the integer                                                 *)
(*   big    the integer 2^53 + n, n >= 0 (an int no float holds exactly     *)
(*          when n is odd)                                                  *)
(*   float  n = its numerator over Den                                      *)
(*   str    s = the text                                                    *)
(*   list   sub = its elements, in order                                    *)
(*   dict   sub = its entries, in insertion order, keys distinct            *)
(* Every float of the model is a multiple of 1/Den, and the scales of       *)
(* FIELD_CONFIG all divide Den, so products and quotients by a scale are    *)
(* exact: the rounding of binary floating point is modelled only where an   *)
(* int beyond 2^53 is converted to float.                                   *)
Den == 100000

Val(t, n, str, sub) == [t |-> t, n |-> n, s |-> str, sub |-> sub]

IntV(i) == Val("int", i, "", <<>>)
BigV(n) == Val("big", n, "", <<>>)
FloatV(num) == Val("float", num, "", <<>>)
StrV(str) == Val("str", 0, str, <<>>)
BoolV(b) == Val("bool", IF b THEN 1 ELSE 0, "", <<>>)

\* The value of a number, as a numerator over Den.
Num(v) == IF v.t = "float" THEN v.n ELSE v.n * Den
IsNumber(v) == v.t \in {"int", "float"}

\* Keys of a map: a text key or an integer key.
StrKey(str) == [int |-> FALSE, i |-> 0, s |-> str]
IntKey(i) == [int |-> TRUE, i |-> i, s |-> ""]

\* An entry of a dict; an element of a list is an entry without a key.
Entry(k, v) == [k |-> k, v |-> v]
Elem(v) == Entry(StrKey(""), v)

ListV(vs) == Val("list", 0, "", [i \in 1..Len(vs) |-> Elem(vs[i])])
DictV(es) == Val("dict", 0, "", es)

\* d[k] = v on a Python dict: a key already present keeps its place and
\* takes the new value.
SetItem(es, e) ==
  IF \E i \in 1..Len(es) : es[i].k = e.k
  THEN [i \in 1..Len(es) |-> IF es[i].k = e.k THEN e ELSE es[i]]
  ELSE Append(es, e)

\* The dict a loop or comprehension builds from entries taken in order.
RECURSIVE DictFrom(_, _)
DictFrom(acc, es) ==
  IF es = <<>> THEN acc ELSE DictFrom(SetItem(acc, Head(es)), Tail(es))

Keys(d) == {d.sub[i].k : i \in 1..Len(d.sub)}
Get(d, k) == d.sub[CHOOSE i \in 1..Len(d.sub) : d.sub[i].k = k].v

\* lines 12-38
FIELD_CONFIG ==
  ("type" :> [key |-> 0, scale |-> 1]) @@
  ("station" :> [key |-> 1, scale |-> 1]) @@
  ("callsign" :> [key |-> 2, scale |-> 1]) @@
  ("latitude" :> [key |-> 3, scale |-> 100000]) @@
  ("longitude" :> [key |-> 4, scale |-> 100000]) @@
  ("altitude" :> [key |-> 5, scale |-> 1]) @@
  ("speed" :> [key |-> 6, scale |-> 100]) @@
  ("heading" :> [key |-> 7, scale |-> 100000]) @@
  ("time" :> [key |-> 8, scale |-> 1]) @@
  ("comment" :> [key |-> 9, scale |-> 1]) @@
  ("model" :> [key |-> 10, scale |-> 1]) @@
  ("freq" :> [key |-> 11, scale |-> 1000]) @@
  ("temp" :> [key |-> 12, scale |-> 10]) @@
  ("frame" :> [key |-> 13, scale |-> 1]) @@
  ("humidity" :> [key |-> 14, scale |-> 10]) @@
  ("pressure" :> [key |-> 15, scale |-> 10]) @@
  ("sats" :> [key |-> 16, scale |-> 1]) @@
  ("batt" :> [key |-> 17, scale |-> 10]) @@
  ("sdr_device_idx" :> [key |-> 18, scale |-> 1]) @@
  ("vel_v" :> [key |-> 19, scale |-> 10]) @@
  ("vel_h" :> [key |-> 20, scale |-> 10]) @@
  ("bt" :> [key |-> 21, scale |-> 1]) @@
  ("snr" :> [key |-> 22, scale |-> 10]) @@
  ("subtype" :> [key |-> 23, scale |-> 1]) @@
  ("manufacturer" :> [key |-> 24, scale |-> 1])

\* line 41: {config["key"]: name for name, config in FIELD_CONFIG.items()}
REVERSE_KEY_MAPPING_Shifted ==
  [k \in {FIELD_CONFIG[nm].key : nm \in DOMAIN FIELD_CONFIG} |->
     CHOOSE nm \in DOMAIN FIELD_CONFIG :
       FIELD_CONFIG[nm].key = (IF k = 12 THEN 5 ELSE k)]
REVERSE_KEY_MAPPING ==
  [k \in {FIELD_CONFIG[nm].key : nm \in DOMAIN FIELD_CONFIG} |->
     CHOOSE nm \in DOMAIN FIELD_CONFIG : FIELD_CONFIG[nm].key = k]

\* int(x) of Python: truncation toward zero, here of a / b with b > 0
TruncDiv(a, b) == IF a >= 0 THEN a \div b ELSE -((-a) \div b)

\* lines 127-130: the scale of a field, 1 when the field is not registered
ScaleOf_UnknownTen(field_name) ==
  IF field_name \in DOMAIN FIELD_CONFIG THEN FIELD_CONFIG[field_name].scale ELSE 10
ScaleOf(field_name) ==
  IF field_name \in DOMAIN FIELD_CONFIG THEN FIELD_CONFIG[field_name].scale ELSE 1

\* line 131: int(value * scale).  value * scale = (n / Den) * scale
\* = n / (Den / scale) for a float, and n * scale for an int.  (An int
\* beyond 2^53 is modelled for the int scale 1 only: int * 1 is exact.)
IntOfProduct(v, scale) ==
  CASE v.t = "int" -> IntV(v.n * scale)
    [] v.t = "float" -> IntV(TruncDiv(v.n, Den \div scale))
    [] v.t = "big" /\ scale = 1 -> v

\* lines 119-121: return 1 if value else 0
BoolToInt_Kept(value) == value
BoolToInt(value) == IntV(value.n)

\* line 134: the field name handed down to the elements of a list
ElemFieldName_None(field_name) == ""
ElemFieldName(field_name) == field_name

\* lines 137-138: the field name handed down to an inner value of a dict
InnerFieldName_Outer(k, field_name) == field_name
InnerFieldName(k, field_name) == k.s

\* line 63, lines 137-138
ShortKey(key) ==
  IF ~key.int /\ key.s \in DOMAIN FIELD_CONFIG
  THEN IntKey(FIELD_CONFIG[key.s].key) ELSE key

\* lines 108-139
RECURSIVE minimize_value(_, _)
minimize_value(value, field_name) ==
  CASE value.t = "bool" -> BoolToInt(value)
    [] value.t = "str" -> value
    [] value.t \in {"int", "float", "big"} ->
         IntOfProduct(value, ScaleOf(field_name))
    [] value.t = "list" ->
         Val("list", 0, "",
             [i \in 1..Len(value.sub) |->
                Elem(minimize_value(value.sub[i].v, ElemFieldName(field_name)))])
    [] value.t = "dict" ->
         DictV(DictFrom(<<>>,
             [i \in 1..Len(value.sub) |->
                Entry(ShortKey(value.sub[i].k),
                      minimize_value(value.sub[i].v,
                                     InnerFieldName(value.sub[i].k, field_name)))]))
    [] OTHER -> value

\* lines 47-66 (the record is a dict with text keys)
optimize_json(d) ==
  DictV(DictFrom(<<>>,
      [i \in 1..Len(d.sub) |->
         Entry(ShortKey(d.sub[i].k), minimize_value(d.sub[i].v, d.sub[i].k.s))]))

\* line 153: REVERSE_KEY_MAPPING.get(short_key, short_key)
FullKey_TextOnly(short_key) ==
  IF short_key.int /\ short_key.i \in DOMAIN REVERSE_KEY_MAPPING
  THEN StrKey(REVERSE_KEY_MAPPING[short_key.i])
  ELSE StrKey(short_key.s)
FullKey(short_key) ==
  IF short_key.int /\ short_key.i \in DOMAIN REVERSE_KEY_MAPPING
  THEN StrKey(REVERSE_KEY_MAPPING[short_key.i]) ELSE short_key

\* float(x) of an int 2^53 + n below 2^54: the floats there are the even
\* integers, and a tie goes to the one whose half is even.
RoundToFloat(n) ==
  IF n % 2 = 0 THEN n
  ELSE IF ((n - 1) \div 2) % 2 = 0 THEN n - 1 ELSE n + 1

\* lines 168-175: isinstance(value, int), which holds for a bool too.  The
\* value of a registered field is divided by the scale (a float), and made
\* an int again when the scale is 1.
RestoreInt(value, scale) ==
  CASE scale # 1 /\ value.t # "big" -> FloatV(value.n * (Den \div scale))
    [] scale = 1 /\ value.t # "big" -> IntV(value.n)
    [] scale = 1 /\ value.t = "big" -> BigV(RoundToFloat(value.n))

\* lines 157-181
RECURSIVE restore_value(_, _)
restore_value(value, field_key) ==
  CASE value.t \in {"int", "bool", "big"} ->
         IF ~field_key.int /\ field_key.s \in DOMAIN FIELD_CONFIG
         THEN RestoreInt(value, FIELD_CONFIG[field_key.s].scale)
         ELSE value
    [] value.t = "list" ->
         Val("list", 0, "",
             [i \in 1..Len(value.sub) |->
                Elem(restore_value(value.sub[i].v, field_key))])
    [] value.t = "dict" ->
         DictV(DictFrom(<<>>,
             [i \in 1..Len(value.sub) |->
                Entry(FullKey(value.sub[i].k),
                      restore_value(value.sub[i].v, FullKey(value.sub[i].k)))]))
    [] OTHER -> value

\* lines 141-155
decode_json(optimized_data) ==
  DictV(DictFrom(<<>>,
      [i \in 1..Len(optimized_data.sub) |->
         Entry(FullKey(optimized_data.sub[i].k),
               restore_value(optimized_data.sub[i].v,
                             FullKey(optimized_data.sub[i].k)))]))

(* cbor2.  A frame is a sequence of data items: an unsigned int, a negative *)
(* int (coded as -1 - n), text, a float, true / false, or the header of an  *)
(* array or a map with its length, followed by the items it holds.          *)
Item(tag, i, str) == [tag |-> tag, i |-> i, s |-> str]

ItemOfInt(i) == IF i >= 0 THEN Item("uint", i, "") ELSE Item("nint", -1 - i, "")
ItemOfKey(k) == IF k.int THEN ItemOfInt(k.i) ELSE Item("text", 0, k.s)

RECURSIVE EncodeValue(_), EncodeEntries(_, _)
EncodeValue(v) ==
  CASE v.t = "int" -> <<ItemOfInt(v.n)>>
    [] v.t = "big" -> <<Item("ubig", v.n, "")>>
    [] v.t = "str" -> <<Item("text", 0, v.s)>>
    [] v.t = "float" -> <<Item("float", v.n, "")>>
    [] v.t = "bool" -> <<Item("bool", v.n, "")>>
    [] v.t = "list" -> <<Item("array", Len(v.sub), "")>> \o EncodeEntries(v.sub, FALSE)
    [] v.t = "dict" -> <<Item("map", Len(v.sub), "")>> \o EncodeEntries(v.sub, TRUE)

EncodeEntries(es, withKeys) ==
  IF es = <<>> THEN <<>>
  ELSE (IF withKeys THEN <<ItemOfKey(Head(es).k)>> ELSE <<>>)
       \o EncodeValue(Head(es).v) \o EncodeEntries(Tail(es), withKeys)

cbor2_dumps(m) == EncodeValue(m)

KeyOfItem(it) ==
  CASE it.tag = "uint" -> IntKey(it.i)
    [] it.tag = "nint" -> IntKey(-1 - it.i)
    [] OTHER -> StrKey(it.s)

NoValue == Val("none", 0, "", <<>>)
ParseError == [ok |-> FALSE, v |-> NoValue, es |-> <<>>, next |-> 0]
Parsed(v, next) == [ok |-> TRUE, v |-> v, es |-> <<>>, next |-> next]
ParsedEntries(es, next) == [ok |-> TRUE, v |-> NoValue, es |-> es, next |-> next]

\* The decoder reads one data item at `pos`; a frame that ends too early,
\* or a map key that is neither an int nor text, is an error.
RECURSIVE ParseValue(_, _), ParseEntries(_, _, _, _)
ParseValue(bytes, pos) ==
  IF pos > Len(bytes) THEN ParseError
  ELSE LET it == bytes[pos]
       IN  CASE it.tag = "uint" -> Parsed(IntV(it.i), pos + 1)
             [] it.tag = "nint" -> Parsed(IntV(-1 - it.i), pos + 1)
             [] it.tag = "ubig" -> Parsed(BigV(it.i), pos + 1)
             [] it.tag = "text" -> Parsed(StrV(it.s), pos + 1)
             [] it.tag = "float" -> Parsed(FloatV(it.i), pos + 1)
             [] it.tag = "bool" -> Parsed(BoolV(it.i = 1), pos + 1)
             [] it.tag = "array" ->
                  LET r == ParseEntries(bytes, pos + 1, it.i, FALSE)
                  IN  IF r.ok THEN Parsed(Val("list", 0, "", r.es), r.next)
                      ELSE ParseError
             [] it.tag = "map" ->
                  LET r == ParseEntries(bytes, pos + 1, it.i, TRUE)
                  IN  IF r.ok THEN Parsed(DictV(DictFrom(<<>>, r.es)), r.next)
                      ELSE ParseError
             [] OTHER -> ParseError

ParseEntries(bytes, pos, count, withKeys) ==
  IF count = 0 THEN ParsedEntries(<<>>, pos)
  ELSE IF withKeys /\ (pos > Len(bytes)
                       \/ bytes[pos].tag \notin {"uint", "nint", "text"})
  THEN ParseError
  ELSE LET vpos == IF withKeys THEN pos + 1 ELSE pos
           key == IF withKeys THEN KeyOfItem(bytes[pos]) ELSE StrKey("")
           val == ParseValue(bytes, vpos)
       IN  IF ~val.ok THEN ParseError
           ELSE LET rest == ParseEntries(bytes, val.next, count - 1, withKeys)
                IN  IF ~rest.ok THEN ParseError
                    ELSE ParsedEntries(<<Entry(key, val.v)>> \o rest.es, rest.next)

\* cbor2.loads: the first data item of the frame, or an error
cbor2_loads(bytes) == ParseValue(bytes, 1)

\* lines 81-92
to_cbor2(d) == cbor2_dumps(optimize_json(d))

\* lines 94-106: cbor2.loads raises on a frame that does not parse, and
\* decode_json raises (AttributeError on .items()) on a value that is not a
\* map; otherwise the decoded record is returned.
from_cbor2_Lenient(bytes) ==
  LET r == cbor2_loads(bytes)
  IN  IF r.ok /\ r.v.t = "dict"
      THEN [ok |-> TRUE, v |-> decode_json(r.v)]
      ELSE [ok |-> TRUE, v |-> DictV(<<>>)]
from_cbor2(bytes) ==
  LET r == cbor2_loads(bytes)
  IN  IF r.ok /\ r.v.t = "dict"
      THEN [ok |-> TRUE, v |-> decode_json(r.v)]
      ELSE [ok |-> FALSE, v |-> NoValue]

(* ------------------------- the records tried -------------------------- *)
\* Fields of a record: unit scale, scale 10, scale 1e5, and one that
\* FIELD_CONFIG does not know.
TestFields == {"altitude", "temp", "latitude", "extra"}
FieldOrder == <<"altitude", "temp", "latitude", "extra">>

\* 4523, -3; -5.1, -5.16, 0.04356, 31.87804; text; true; false;
\* [-2.56, 3]; {"temp": 1.5, "altitude": 3, "y": 2.7}
TestValues ==
  {IntV(4523), IntV(-3), FloatV(-510000), FloatV(-516000), FloatV(4356),
   FloatV(3187804), StrV("IMET"), BoolV(TRUE), BoolV(FALSE),
   ListV(<<FloatV(-256000), IntV(3)>>),
   DictV(<<Entry(StrKey("temp"), FloatV(150000)),
           Entry(StrKey("altitude"), IntV(3)),
           Entry(StrKey("y"), FloatV(270000))>>)}

\* 2^53 + 1 and 2^53 + 2, for the fields whose scale is the int 1
ValuesFor(f) ==
  TestValues \cup (IF ScaleOf(f) = 1 THEN {BigV(1), BigV(2)} ELSE {})

Absent == NoValue

\* The record that holds, in the order of FieldOrder, the fields `pick`
\* gives a value.
RecordOf(pick) ==
  DictV(SelectSeq([i \in 1..Len(FieldOrder) |->
                     Entry(StrKey(FieldOrder[i]), pick[FieldOrder[i]])],
                  LAMBDA e : e.v # Absent))

Choices == {pick \in [TestFields -> TestValues \cup {BigV(1), BigV(2), Absent}] :
              \A f \in TestFields : pick[f] \in ValuesFor(f) \cup {Absent}}

Records == {RecordOf(pick) : pick \in Choices}

\* Compact records as another sender may have written them:
\* {}, {99: 7}, {99: 7, 5: 100}, {99: 1, 5: 100, "altitude": 7},
\* {99: {5: 100}}, {99: [1, 2]}, {-2: "x", "extra": 15, 12: -51}
ForeignCompacts ==
  {DictV(<<>>),
   DictV(<<Entry(IntKey(99), IntV(7))>>),
   DictV(<<Entry(IntKey(99), IntV(7)), Entry(IntKey(5), IntV(100))>>),
   DictV(<<Entry(IntKey(99), IntV(1)), Entry(IntKey(5), IntV(100)),
           Entry(StrKey("altitude"), IntV(7))>>),
   DictV(<<Entry(IntKey(99), DictV(<<Entry(IntKey(5), IntV(100))>>))>>),
   DictV(<<Entry(IntKey(99), ListV(<<IntV(1), IntV(2)>>))>>),
   DictV(<<Entry(IntKey(-2), StrV("x")), Entry(StrKey("extra"), IntV(15)),
           Entry(IntKey(12), IntV(-51))>>)}

\* Frames that are no map: nothing at all, a map cut short after its header
\* or after a key, an int, an array, a text.
MalformedFrames ==
  {<<>>,
   <<Item("map", 1, "")>>,
   <<Item("map", 1, ""), Item("uint", 5, "")>>,
   <<Item("uint", 5, "")>>,
   <<Item("array", 1, ""), Item("uint", 1, "")>>,
   <<Item("text", 0, "x")>>}

Frames == {cbor2_dumps(c) : c \in ForeignCompacts} \cup MalformedFrames

\* A record handed to to_cbor2, or a frame the radio delivered.
\* lines 16-30 of SondeLoraClient.py: the filters a client is made with.
\* None, channel 0 and channel 1; None, the ids 0 and 5, the id 5 as text,
\* and a text that is no number.
ChannelConfigs == {NoValue, IntV(0), IntV(1)}
SourceConfigs == {NoValue, IntV(0), IntV(5), StrV("5"), StrV("!a1b2")}

\* The packets tried: the channel (None when the packet names none) and
\* the sender; the text of the packet is the hex form of cbor_bytes.
Packets ==
  {[channel |-> c, from |-> f] : c \in {NoValue, IntV(0), IntV(1)},
                                 f \in {IntV(0), IntV(5), IntV(7)}}
NoPacket == [channel |-> NoValue, from |-> NoValue]

CodecInput ==
  /\ decoded_data = NoValue
  /\ logged = NoValue
  /\ optimized = NoValue
  /\ \/ /\ cstage = "input" /\ data \in Records /\ cbor_bytes = <<>>
        /\ channel = NoValue /\ source_device_id = NoValue
        /\ packet = NoPacket
     \/ /\ cstage = "packet" /\ data = NoValue /\ cbor_bytes \in Frames
        /\ channel \in ChannelConfigs
        /\ source_device_id \in SourceConfigs
        /\ packet \in Packets

\* The scheduler stays as constructed while the codec runs.
CodecInit == SchedInit /\ CodecInput /\ BridgeOff

\* What optimize_json leaves of the record it was given (lines 58-66: the
\* entries are read with data.items() and written to the new dict
\* `optimized`; lists and dicts inside are rebuilt by comprehensions).
ArgAfterOptimize_InPlace(d) == optimize_json(d)
ArgAfterOptimize(d) == d

\* What decode_json leaves of the record it was given (lines 151-155).
ArgAfterDecode(o) == o

ToCbor2 ==
  /\ cstage = "input"
  /\ cbor_bytes' = to_cbor2(data)
  /\ data' = ArgAfterOptimize(data)
  /\ cstage' = "encoded"
  /\ UNCHANGED <<decoded_data, logged, optimized, channel, source_device_id,
                 packet, schedVars, bridgeVars>>

\* from_cbor2 returns the record or raises.
FromCbor2 ==
  /\ cstage \in {"encoded", "rx"}
  /\ LET r == from_cbor2(cbor_bytes)
         l == cbor2_loads(cbor_bytes)
     IN  /\ IF r.ok
            THEN /\ decoded_data' = r.v
                 /\ cstage' = IF cstage = "rx" THEN "rx_decoded" ELSE "decoded"
            ELSE /\ decoded_data' = decoded_data
                 /\ cstage' = IF cstage = "rx" THEN "rx_error" ELSE "error"
         /\ optimized' = IF ~l.ok THEN optimized
                         ELSE IF l.v.t = "dict" THEN ArgAfterDecode(l.v)
                         ELSE l.v
  /\ UNCHANGED <<data, cbor_bytes, logged, channel, source_device_id, packet,
                 schedVars, bridgeVars>>

\* Python's truth value of a filter: None, 0 and "" are false.
Truthy(v) ==
  CASE v.t = "none" -> FALSE
    [] v.t = "int" -> v.n # 0
    [] v.t = "str" -> v.s # ""
    [] OTHER -> TRUE

\* int(text): the number a decimal text spells, or ValueError
IntOfText(v) ==
  CASE v.s = "5" -> [ok |-> TRUE, v |-> IntV(5)]
    [] v.s = "0" -> [ok |-> TRUE, v |-> IntV(0)]
    [] OTHER -> [ok |-> FALSE, v |-> NoValue]

\* lines 51-54
valid_channel ==
  ~(channel # NoValue /\ packet.channel # channel)

\* line 60
source_id ==
  IF source_device_id.t = "str" THEN IntOfText(source_device_id)
  ELSE [ok |-> TRUE, v |-> source_device_id]

\* lines 57-62
valid_source_device ==
  ~(source_device_id # NoValue /\ packet.from # source_id.v)

\* line 65
Ignored ==
  \/ Truthy(channel) /\ ~valid_channel
  \/ Truthy(source_device_id) /\ ~valid_source_device

\* SondeLoraClient.on_message_received, lines 46-74: the filters, then the
\* bytes of the text.  A source id that is no number makes line 60 raise,
\* which the handler of lines 94-95 reports.
Filter ==
  /\ cstage = "packet"
  /\ cstage' = IF source_device_id # NoValue /\ ~source_id.ok THEN "rx_raised"
               ELSE IF Ignored THEN "rx_filtered"
               ELSE "rx"
  /\ UNCHANGED <<data, cbor_bytes, decoded_data, logged, optimized, channel,
                 source_device_id, packet, schedVars, bridgeVars>>

\* SondeLoraClient.on_message_received, lines 76-88: the decoded record is
\* printed, logged and sent on.
LogPacket ==
  /\ cstage = "rx_decoded"
  /\ logged' = decoded_data
  /\ cstage' = "rx_logged"
  /\ UNCHANGED <<data, cbor_bytes, decoded_data, optimized, channel,
                 source_device_id, packet, schedVars, bridgeVars>>

\* lines 90-92: except Exception: pass
IgnoreError ==
  /\ cstage = "rx_error"
  /\ cstage' = "rx_ignored"
  /\ UNCHANGED <<data, cbor_bytes, decoded_data, logged, optimized, channel,
                 source_device_id, packet, schedVars, bridgeVars>>

CodecNext == ToCbor2 \/ FromCbor2 \/ Filter \/ LogPacket \/ IgnoreError

CodecSpec == CodecInit /\ [][CodecNext]_vars

(* ============ SondeLoraBridge: the manager with its consumer ========== *)
\* What a datagram holds: text that is no JSON, JSON that is no object
\* ("[1]"), an object of another type, a PAYLOAD_SUMMARY object.
RawKinds == {"invalid", "list", "other_type", "summary"}

\* target_device_id of the bridge: None, or a node id
TargetConfigs == {NoValue, StrV("!a1b2")}

\* {"type": "PAYLOAD_SUMMARY", "callsign": "IMET", "latitude": 31.87804,
\*  "altitude": 4523, "frame": 7}
SummaryData ==
  DictV(<<Entry(StrKey("type"), StrV("PAYLOAD_SUMMARY")),
          Entry(StrKey("callsign"), StrV("IMET")),
          Entry(StrKey("latitude"), FloatV(3187804)),
          Entry(StrKey("altitude"), IntV(4523)),
          Entry(StrKey("frame"), IntV(7))>>)

\* lines 132-157: dto = {name: data.get(name, "")} for the fields sent
DtoFields ==
  <<"callsign", "latitude", "longitude", "altitude", "time", "model",
    "freq", "frame", "bt", "snr", "subtype">>

Dto(d) ==
  DictV([i \in 1..Len(DtoFields) |->
           Entry(StrKey(DtoFields[i]),
                 IF StrKey(DtoFields[i]) \in Keys(d)
                 THEN Get(d, StrKey(DtoFields[i])) ELSE StrV(""))])

\* lines 160, 176: cbor_data.hex(), the text handed to the transport
Hex(bytes) == [hex |-> bytes]
cbor_data == to_cbor2(Dto(SummaryData))

\* The exception raised inside the try of process_data: json.loads (line
\* 122), data.get on a list (line 125), and the call of line 180, which
\* passes one argument to send_channel_message(self, channel, message).
RaisedIn(raw, reaches_send, target) ==
  CASE raw = "invalid" -> "JSONDecodeError"
    [] raw = "list" -> "AttributeError"
    [] raw = "summary" /\ reaches_send /\ ~Truthy(target) -> "TypeError"
    [] OTHER -> "none"

\* lines 185-188: except json.JSONDecodeError, except Exception
Caught_JSONOnly(exc) == exc = "JSONDecodeError"
Caught(exc) == exc \in {"JSONDecodeError", "AttributeError", "TypeError"}

\* lines 112-188.  `dev`: the transport is connected; `connect_ok`: connect()
\* would succeed.  Whether sendText raises makes no difference here:
\* send_direct_message catches it (lines 87-89) and process_data does not
\* look at what it returns.  The result: what the run did, and the
\* transport afterwards.
process_data(raw, dev, connect_ok, target) ==
  LET reaches_send == raw = "summary" /\ (dev \/ connect_ok)
      exc == RaisedIn(raw, reaches_send, target)
  IN  [run |-> [raw |-> raw,
                connected |-> dev,
                sends |-> IF reaches_send /\ Truthy(target)
                          THEN <<[kind |-> "direct", to |-> target,
                                  text |-> Hex(cbor_data)]>>
                          ELSE <<>>,
                raised |-> exc,
                returned |-> exc = "none" \/ Caught(exc)],
       device |-> dev \/ reaches_send]

\* The consumer of the bridge's manager is process_data: a step that
\* invokes the consumer runs it on the datagram, and the invocation ends
\* normally iff process_data returns.
Consumer ==
  IF fire'.by # "none"
  THEN \E raw \in RawKinds, connect_ok \in BOOLEAN :
         LET r == process_data(raw, device, connect_ok, target_device_id)
         IN  /\ fire'.ok = r.run.returned
             /\ run' = r.run
             /\ device' = r.device
  ELSE run' = NoRun /\ device' = device

\* History: an item is pending from its append until the consumer is
\* invoked or the buffer is cleared; stop() owes the item it found pending
\* until the consumer is invoked; stop() goes on when its flush has returned.
Track ==
  /\ pending' = IF Len(data_buffer') > Len(data_buffer) THEN TRUE
                ELSE IF fire'.by # "none" \/ data_buffer' = <<>> THEN FALSE
                ELSE pending
  /\ stop_owes' = IF fire'.by # "none" /\ stop_pc = "L80" THEN FALSE
                  ELSE stop_owes
  /\ stop_pc' = IF stop_pc = "L80" /\ ret'.kind = "flush"
                THEN (IF ret'.raised THEN "raised" ELSE "L81")
                ELSE stop_pc
  /\ UNCHANGED <<target_device_id, closed>>

InBridge == Consumer /\ Track

\* SondeLoraBridge.stop, lines 79-80: self.manager.flush()
StopCall(c) ==
  /\ stop_pc = "run"
  /\ FlushCall(c)
  /\ stop_pc' = IF ret'.kind = "flush" THEN "L81" ELSE "L80"
  /\ stop_owes' = (data_buffer # <<>> /\ pending)
  /\ run' = NoRun
  /\ UNCHANGED <<device, target_device_id, closed, pending>>

\* lines 81-82: if self.meshtastic_client.is_connected(): disconnect()
StopL81(c) ==
  /\ stop_pc = "L81" /\ pc[c] = "idle"
  /\ closed' = device
  /\ stop_pc' = "done"
  /\ fire' = NoFire /\ ret' = NoRet /\ run' = NoRun
  /\ UNCHANGED <<counter, start_time, data_buffer, timer_thread, stop_event,
                 now, pc, elapsed, op, winFires, winItems>>
  /\ UNCHANGED codecVars
  /\ UNCHANGED <<device, target_device_id, pending, stop_owes>>

\* lines 19-58: the bridge as constructed (MeshtasticClient.device is None)
BridgeInit ==
  /\ SchedInit /\ CodecOff
  /\ device = FALSE
  /\ target_device_id \in TargetConfigs
  /\ run = NoRun /\ closed = FALSE /\ stop_pc = "run"
  /\ pending = FALSE /\ stop_owes = FALSE

\* The listener hands each datagram to addWork (lines 60-69) until stop()
\* is called; the timer threads run beside both.
BridgeNext ==
  \/ \E c \in Callers :
       \/ \E d \in Items : stop_pc = "run" /\ AddWorkCall(c, d) /\ InBridge
       \/ StopCall(c)
       \/ StopL81(c)
       \/ L40(c) /\ InBridge
       \/ L43(c) /\ InBridge
       \/ L44(c) /\ InBridge
       \/ L72(c) /\ InBridge
       \/ L73(c) /\ InBridge
       \/ L74(c) /\ InBridge
       \/ L52(c) /\ InBridge
  \/ \E th \in Threads :
       \/ L57(th) /\ InBridge
       \/ L58(th) /\ InBridge
       \/ L61(th) /\ InBridge
       \/ L62(th) /\ InBridge
       \/ L63(th) /\ InBridge
       \/ L78(th) /\ InBridge
       \/ L80(th) /\ InBridge
       \/ L85(th) /\ InBridge
       \/ L86(th) /\ InBridge
  \/ \E t \in Timers :
       \/ L89(t) /\ InBridge
       \/ L90(t) /\ InBridge
       \/ L91(t) /\ InBridge
       \/ L92(t) /\ InBridge
  \/ Tick /\ InBridge

BridgeSpec == BridgeInit /\ [][BridgeNext]_vars

(* ------------------------------- claims ------------------------------- *)
Fired == fire.by # "none"
Returned(k) == ret.kind = k

\* C1: in one accumulation window the consumer is invoked at most once by
\* addWork and the timer together, under every interleaving of the two.
C1_AtMostOneFirePerWindow == winFires <= 1

\* C3: every invocation of the consumer passes one item, the most recently
\* received item of the window that the buffer holds.
C3_FiresLatestItem ==
  Fired => /\ fire.arg \in Items
           /\ fire.latest \in Items
           /\ fire.arg = fire.latest

C3_Witness ==
  /\ Fired /\ fire.by = "timer"
  /\ Len(winItems) = 2 /\ winItems[1] # winItems[2]
  /\ fire.arg = winItems[2]

\* C4: when the consumer raises, the Batch State is reset to Idle all the same.
C4_ResetAfterFailedCallback == (Fired /\ ~fire.ok) => Idle

\* C5: whenever no operation is in progress, start_time is set if and only
\* if counter > 0.
C5_DeadlineIffCount == Quiescent => (start_time # NoneVal <=> counter > 0)

\* C6: when addWork or the timer invokes the consumer for a window that is
\* open (items counted and buffered, deadline armed), that window has reached
\* its count threshold or its time threshold.
WindowOpen == counter > 0 /\ start_time # NoneVal /\ data_buffer # <<>>

C6_FireOnlyOnTrigger == (Fired /\ fire.by # "flush" /\ WindowOpen) => fire.cond

\* C10: while addWork or the timer is between its threshold check and the end
\* of its reset, the other does not read or write the Batch State.
InCritical(th) == pc[th] \in {"L57", "L58", "L61", "L62", "L63"}
TouchesBatch(th) ==
  pc[th] \in {"L40", "L43", "L44", "L52", "L57", "L58", "L61", "L62", "L63",
              "L90", "L91"}

C10_MutualExclusion ==
  \A c \in Callers, t \in Timers :
     op[c].kind = "addWork" =>
       /\ ~(InCritical(c) /\ TouchesBatch(t))
       /\ ~(InCritical(t) /\ TouchesBatch(c))

\* C2: the round trip from_cbor2(to_cbor2(r)) keeps exactly the field names
\* of r, and every number of a registered field with scale s comes back
\* within 0.5/s of its value.
WithinHalfStep(orig, back, scale) ==
  LET diff == Num(back) - Num(orig)
      abs == IF diff >= 0 THEN diff ELSE -diff
  IN  2 * abs * scale <= Den

C2_RoundTripWithinHalfStep ==
  cstage = "decoded" =>
    /\ Keys(decoded_data) = Keys(data)
    /\ \A k \in Keys(data) :
         (IsNumber(Get(data, k)) /\ k.s \in DOMAIN FIELD_CONFIG) =>
           /\ IsNumber(Get(decoded_data, k))
           /\ WithinHalfStep(Get(data, k), Get(decoded_data, k),
                             FIELD_CONFIG[k.s].scale)

\* C7: no window stays Accumulating forever.  Given that the threads keep
\* being scheduled and time passes, and in an execution in which the
\* consumer never raises, once items are counted the scheduler gets back to
\* Idle: the timer closes the window if no count fire and no flush does.
C7_EveryWindowCloses == [](Fired => fire.ok) => ((counter > 0) ~> Idle)

\* C8: in calls made one after the other, addWork invokes the consumer only
\* when the count has reached count_threshold, and then with the item of
\* that call (the Nth of a window begun from Idle); a call that returns
\* without invoking leaves fewer than count_threshold items, all buffered,
\* with the deadline armed; a call that invoked and returns leaves Idle.
C8_CountFire ==
  /\ (Fired /\ fire.by = "addWork") =>
       /\ fire.cnt >= CountThreshold
       /\ fire.arg = fire.latest
       /\ fire.cnt = CountThreshold =>
            /\ Len(winItems) = CountThreshold
            /\ fire.arg = winItems[CountThreshold]
  /\ (Returned("addWork") /\ ~ret.raised) =>
       IF ret.fired = 1
       THEN Idle
       ELSE /\ counter \in 1..(CountThreshold - 1)
            /\ Len(data_buffer) = counter
            /\ start_time # NoneVal
  /\ (Returned("addWork") /\ ret.raised) => ret.fired = 1

C8_Witness ==
  /\ Returned("addWork") /\ ret.fired = 1 /\ ~ret.raised
  /\ Idle

\* C9: in calls made one after the other, flush() on an empty buffer returns
\* at once, invokes nothing and changes nothing; on a non-empty buffer it
\* goes on to invoke the consumer with the latest item, whatever the count
\* and the elapsed time, and when it returns the state is Idle.
PostFire == {"L61", "L62", "L63", "L78", "L80", "L85", "L86"}

FlushCalled(c) ==
  /\ pc[c] = "idle"
  /\ \/ op'[c].kind = "flush"
     \/ ret'.kind = "flush" /\ ret'.th = c

C9_FlushState ==
  /\ \A c \in Callers :
       (op[c].kind = "flush" /\ pc[c] \in PostFire) => op[c].fired = 1
  /\ (Fired /\ fire.by = "flush") => (fire.arg \in Items /\ fire.arg = fire.latest)
  /\ Returned("flush") =>
       IF ret.raised THEN ret.fired = 1
       ELSE Idle

C9_FlushStep ==
  \A c \in Callers :
    FlushCalled(c) =>
      IF data_buffer = <<>>
      THEN /\ ret'.kind = "flush" /\ ret'.fired = 0 /\ ~ret'.raised
           /\ fire' = NoFire
           /\ pc' = pc
           /\ UNCHANGED managerState
      ELSE /\ pc'[c] = "L57"
           /\ ret' = NoRet
           /\ fire' = NoFire

C9_Flush == [](C9_FlushState) /\ [][C9_FlushStep]_vars

C9_Witness ==
  /\ Fired /\ fire.by = "flush" /\ fire.ok
  /\ ~fire.cond
  /\ fire.arg = Latest

\* The compact record a frame written by to_cbor2 holds.
Compact == cbor2_loads(cbor_bytes).v

\* C11: for a number v of a registered field with scale s, the compact value
\* is an integer, and it is the integer nearest to v * s (round, not
\* truncation), for positive and negative v alike.
NearestInt(m, v, scale) ==
  LET q == Den \div scale
      diff == m * q - Num(v)
      abs == IF diff >= 0 THEN diff ELSE -diff
  IN  2 * abs <= q

C11_MinimizeRounds ==
  cstage = "encoded" =>
    \A k \in Keys(data) :
      (IsNumber(Get(data, k)) /\ k.s \in DOMAIN FIELD_CONFIG) =>
        /\ Get(Compact, ShortKey(k)).t = "int"
        /\ NearestInt(Get(Compact, ShortKey(k)).n, Get(data, k),
                      FIELD_CONFIG[k.s].scale)

\* C12: an integer value of a registered field whose scale is 1 comes back
\* from the round trip as the same integer, with integer type.
IsInteger(v) == v.t \in {"int", "big"}

C12_UnitScaleExact ==
  cstage = "decoded" =>
    \A k \in Keys(data) :
      (IsInteger(Get(data, k)) /\ k.s \in DOMAIN FIELD_CONFIG
                               /\ FIELD_CONFIG[k.s].scale = 1) =>
        /\ k \in Keys(decoded_data)
        /\ Get(decoded_data, k) = Get(data, k)

\* C13: a field whose name FIELD_CONFIG does not hold keeps its name as a
\* text key in the compact record and in the decoded record; its value is
\* transformed with scale 1 on the way in (an int, a text stay as they are, a
\* float becomes its integer part, a bool 1 or 0) and is not rescaled on the
\* way out; no entry is dropped or renamed.  A compact record received from
\* elsewhere keeps its unregistered text keys and their values as well.
IsScalar(v) == v.t \in {"int", "big", "float", "str", "bool"}
Unregistered(k) == ~k.int /\ k.s \notin DOMAIN FIELD_CONFIG

WithScaleOne(v) ==
  CASE v.t = "float" -> IntV(TruncDiv(v.n, Den))
    [] v.t = "bool" -> IntV(v.n)
    [] OTHER -> v

C13_UnregisteredPassThrough ==
  /\ cstage \in {"encoded", "decoded"} =>
       /\ Len(Compact.sub) = Len(data.sub)
       /\ \A k \in Keys(data) :
            Unregistered(k) =>
              /\ k \in Keys(Compact)
              /\ IsScalar(Get(data, k)) =>
                   Get(Compact, k) = WithScaleOne(Get(data, k))
  /\ cstage = "decoded" =>
       /\ Len(decoded_data.sub) = Len(data.sub)
       /\ \A k \in Keys(data) :
            Unregistered(k) =>
              /\ k \in Keys(decoded_data)
              /\ IsScalar(Get(data, k)) =>
                   Get(decoded_data, k) = Get(Compact, k)
  /\ cstage = "rx_decoded" =>
       \A k \in Keys(Compact) :
         Unregistered(k) =>
           /\ k \in Keys(decoded_data)
           /\ Get(decoded_data, k) = Get(Compact, k)

C13_Witness ==
  /\ cstage = "decoded"
  /\ StrKey("extra") \in Keys(data)
  /\ Get(data, StrKey("extra")) = FloatV(4356)
  /\ Get(decoded_data, StrKey("extra")) = IntV(0)
  /\ StrKey("temp") \in Keys(data)

\* C14 (as claimed): decoding a compact record that holds an integer key
\* unknown to REVERSE_KEY_MAPPING keeps that entry under the same integer
\* key with its value unchanged, and the decoded record has as many entries
\* as the compact record.
UnknownIntKey(k) == k.int /\ k.i \notin DOMAIN REVERSE_KEY_MAPPING
HasUnknownIntKey(d) == \E k \in Keys(d) : UnknownIntKey(k)

C14_UnknownKeyVerbatim ==
  (cstage = "rx_decoded" /\ HasUnknownIntKey(Compact)) =>
    /\ \A k \in Keys(Compact) :
         UnknownIntKey(k) =>
           /\ k \in Keys(decoded_data)
           /\ Get(decoded_data, k) = Get(Compact, k)
    /\ Len(decoded_data.sub) = Len(Compact.sub)

\* C14 (amended): the entry is kept under the same integer key; its value is
\* unchanged when it holds no map (a map keeps its size and map type, its
\* own keys being translated); and the decoded record has as many entries
\* as the compact record when no two keys of the compact record name the
\* same field.
RECURSIVE MapFree(_)
MapFree(v) ==
  CASE v.t = "dict" -> FALSE
    [] v.t = "list" -> \A i \in 1..Len(v.sub) : MapFree(v.sub[i].v)
    [] OTHER -> TRUE

NamesDistinct(d) ==
  \A i, j \in 1..Len(d.sub) : i # j => FullKey(d.sub[i].k) # FullKey(d.sub[j].k)

C14_UnknownKeyKept ==
  (cstage = "rx_decoded" /\ HasUnknownIntKey(Compact)) =>
    /\ \A k \in Keys(Compact) :
         UnknownIntKey(k) =>
           /\ k \in Keys(decoded_data)
           /\ IF MapFree(Get(Compact, k))
              THEN Get(decoded_data, k) = Get(Compact, k)
              ELSE /\ Get(decoded_data, k).t = Get(Compact, k).t
                   /\ Len(Get(decoded_data, k).sub) <= Len(Get(Compact, k).sub)
    /\ NamesDistinct(Compact) => Len(decoded_data.sub) = Len(Compact.sub)

C14_Witness ==
  /\ cstage = "rx_decoded"
  /\ Compact = DictV(<<Entry(IntKey(99), IntV(7)), Entry(IntKey(5), IntV(100))>>)
  /\ decoded_data = DictV(<<Entry(IntKey(99), IntV(7)),
                            Entry(StrKey("altitude"), IntV(100))>>)

\* C15: a received frame that is no valid map makes from_cbor2 raise: no
\* record is returned and the client logs and forwards nothing; a frame
\* holding the empty map is decoded to the empty record, which is returned
\* and logged, so the two outcomes differ.
RxFailed == cstage \in {"rx_error", "rx_ignored"}
RxDecoded == cstage \in {"rx_decoded", "rx_logged"}
EmptyMapFrame == <<Item("map", 0, "")>>

C15_MalformedFrameIsAnError ==
  /\ (RxFailed \/ RxDecoded) => (RxFailed <=> cbor_bytes \in MalformedFrames)
  /\ RxFailed => (decoded_data = NoValue /\ logged = NoValue)
  /\ RxDecoded => decoded_data.t = "dict"
  /\ (RxDecoded /\ cbor_bytes = EmptyMapFrame) => decoded_data = DictV(<<>>)
  /\ cstage = "rx_logged" => logged = decoded_data

C15_Witness ==
  /\ cstage = "rx_ignored"
  /\ cbor_bytes = <<Item("map", 1, ""), Item("uint", 5, "")>>
  /\ decoded_data = NoValue /\ logged = NoValue

\* C16: the registry is a bijection: no two names of FIELD_CONFIG share a
\* key, REVERSE_KEY_MAPPING is defined on exactly the registered keys and is
\* the inverse of the name-to-key map in both directions; the tables are the
\* same in every state the codec reaches, so a registered name that was
\* shortened is given back by the reverse lookup.
RegisteredNames == DOMAIN FIELD_CONFIG
RegisteredKeys == {FIELD_CONFIG[nm].key : nm \in RegisteredNames}

C16_RegistryBijection ==
  /\ \A a, b \in RegisteredNames :
       FIELD_CONFIG[a].key = FIELD_CONFIG[b].key => a = b
  /\ DOMAIN REVERSE_KEY_MAPPING = RegisteredKeys
  /\ \A nm \in RegisteredNames : REVERSE_KEY_MAPPING[FIELD_CONFIG[nm].key] = nm
  /\ \A k \in RegisteredKeys :
       /\ REVERSE_KEY_MAPPING[k] \in RegisteredNames
       /\ FIELD_CONFIG[REVERSE_KEY_MAPPING[k]].key = k
  /\ cstage = "decoded" =>
       \A k \in Keys(data) :
         k.s \in RegisteredNames =>
           /\ ShortKey(k) = IntKey(FIELD_CONFIG[k.s].key)
           /\ FullKey(ShortKey(k)) = k
           /\ k \in Keys(decoded_data)

C16_Witness ==
  /\ cstage = "decoded"
  /\ StrKey("temp") \in Keys(data) /\ StrKey("altitude") \in Keys(data)
  /\ IntKey(12) \in Keys(Compact) /\ IntKey(5) \in Keys(Compact)
  /\ StrKey("temp") \in Keys(decoded_data)
  /\ StrKey("altitude") \in Keys(decoded_data)

\* C17: a boolean is written as the integer 1 (true) or 0 (false) whatever
\* the scale of its field, and no value of the record restored from the
\* encoder's output is a boolean: what was a boolean comes back a number.
RECURSIVE NoBoolean(_)
NoBoolean(v) ==
  /\ v.t # "bool"
  /\ \A i \in 1..Len(v.sub) : NoBoolean(v.sub[i].v)

C17_BooleanBecomesNumber ==
  /\ cstage \in {"encoded", "decoded"} =>
       /\ NoBoolean(Compact)
       /\ \A k \in Keys(data) :
            Get(data, k).t = "bool" =>
              Get(Compact, ShortKey(k)) =
                (IF Get(data, k) = BoolV(TRUE) THEN IntV(1) ELSE IntV(0))
  /\ cstage = "decoded" =>
       /\ NoBoolean(decoded_data)
       /\ \A k \in Keys(data) :
            Get(data, k).t = "bool" =>
              /\ k \in Keys(decoded_data)
              /\ IsNumber(Get(decoded_data, k))

C17_Witness ==
  /\ cstage = "decoded"
  /\ {StrKey("temp"), StrKey("altitude")} \subseteq Keys(data)
  /\ Get(data, StrKey("temp")) = BoolV(TRUE)
  /\ Get(data, StrKey("altitude")) = BoolV(FALSE)
  /\ Get(Compact, IntKey(12)) = IntV(1)
  /\ Get(Compact, IntKey(5)) = IntV(0)
  /\ Get(decoded_data, StrKey("temp")) = FloatV(10000)
  /\ Get(decoded_data, StrKey("altitude")) = IntV(0)

\* C18: a nested map is written like a record of its own: each inner name is
\* shortened by itself and each inner value is scaled with the scale of its
\* inner name, whatever the field that holds the map; decoding gives each
\* inner key its name back and restores the value with that name's scale.
NestedFields(d) == {k \in Keys(d) : Get(d, k).t = "dict"}

C18_NestedMapOwnScale ==
  /\ cstage \in {"encoded", "decoded"} =>
       \A k \in NestedFields(data) :
         LET inner == Get(data, k)
             compact == Get(Compact, ShortKey(k))
         IN  /\ compact = optimize_json(inner)
             /\ Len(compact.sub) = Len(inner.sub)
             /\ \A ik \in Keys(inner) :
                  /\ ShortKey(ik) \in Keys(compact)
                  /\ ShortKey(ik).int <=> (ik.s \in DOMAIN FIELD_CONFIG)
                  /\ Get(compact, ShortKey(ik)) =
                       minimize_value(Get(inner, ik), ik.s)
  /\ cstage = "decoded" =>
       \A k \in NestedFields(data) :
         LET compact == Get(Compact, ShortKey(k))
             restored == Get(decoded_data, k)
         IN  /\ restored = decode_json(compact)
             /\ \A ck \in Keys(compact) :
                  /\ FullKey(ck) \in Keys(restored)
                  /\ Get(restored, FullKey(ck)) =
                       restore_value(Get(compact, ck), FullKey(ck))

\* {"temp": 1.5, "altitude": 3, "y": 2.7} held by latitude (scale 1e5) is
\* written {12: 15, 5: 3, "y": 2} and read back
\* {"temp": 1.5, "altitude": 3, "y": 2}.
C18_Witness ==
  /\ cstage = "decoded"
  /\ StrKey("latitude") \in NestedFields(data)
  /\ Get(Compact, IntKey(3)) =
       DictV(<<Entry(IntKey(12), IntV(15)), Entry(IntKey(5), IntV(3)),
               Entry(StrKey("y"), IntV(2))>>)
  /\ Get(decoded_data, StrKey("latitude")) =
       DictV(<<Entry(StrKey("temp"), FloatV(150000)),
               Entry(StrKey("altitude"), IntV(3)),
               Entry(StrKey("y"), IntV(2))>>)

\* C19: a list is written and read element by element with the scale of the
\* field that holds it: the written and the restored list have the length
\* of the input, and their i-th element is the written (restored) form of
\* the i-th element.
ListFields(d) == {k \in Keys(d) : Get(d, k).t = "list"}

C19_ListElementwise ==
  /\ cstage \in {"encoded", "decoded"} =>
       \A k \in ListFields(data) :
         LET input == Get(data, k).sub
             compact == Get(Compact, ShortKey(k))
         IN  /\ compact.t = "list"
             /\ Len(compact.sub) = Len(input)
             /\ \A i \in 1..Len(input) :
                  compact.sub[i].v = minimize_value(input[i].v, k.s)
  /\ cstage = "decoded" =>
       \A k \in ListFields(data) :
         LET compact == Get(Compact, ShortKey(k)).sub
             restored == Get(decoded_data, k)
         IN  /\ restored.t = "list"
             /\ Len(restored.sub) = Len(Get(data, k).sub)
             /\ \A i \in 1..Len(compact) :
                  restored.sub[i].v = restore_value(compact[i].v, k)

\* [-2.56, 3] held by temp (scale 10) is written [-25, 30] and read back
\* [-2.5, 3.0].
C19_Witness ==
  /\ cstage = "decoded"
  /\ StrKey("temp") \in ListFields(data)
  /\ Get(Compact, IntKey(12)) = ListV(<<IntV(-25), IntV(30)>>)
  /\ Get(decoded_data, StrKey("temp")) =
       ListV(<<FloatV(-250000), FloatV(300000)>>)

\* C20: the deadline is armed only by the first addWork of a window: when
\* addWork stands at line 44, about to write start_time, the buffer holds
\* its item alone and no deadline is set; an addWork that comes later in
\* the window never gets there, so start_time stays as the first one set it.
Arming(c) == pc[c] = "L44"

C20_ArmedByFirstOnly ==
  \A c \in Callers :
    Arming(c) => (Len(data_buffer) = 1 /\ start_time = NoneVal)

\* C21: _stop_timer never joins the timer thread from within itself: a
\* thread at the join of line 85 is not the thread _timer_thread names; a
\* timer thread that performs the fire never gets to the join at all; and
\* the join is made on a thread object, so it ends by its timeout and
\* _stop_timer returns.
Joining(th) == pc[th] = "L85"

C21_NoJoinFromTimer ==
  /\ \A th \in Threads : Joining(th) => timer_thread # th
  /\ \A t \in Timers : ~Joining(t)
  /\ \A th \in Threads : Joining(th) => timer_thread # NoThread

\* C23: at most one timer thread is polling the Batch State: a thread that
\* is inside the loop of _timer_check and has not been told to stop (or has
\* passed the test of the stop event) is the only such thread.
Polling(t) ==
  \/ pc[t] = "L89" /\ ~stop_event
  \/ pc[t] \in {"L90", "L91", "L92"}

C23_OneTimerPolls == Cardinality({t \in Timers : Polling(t)}) <= 1

\* C22: the codec never modifies what it is given: no step changes the
\* record handed to to_cbor2 / optimize_json, the frame handed to
\* from_cbor2 stays the same, and the compact record handed to decode_json
\* is after the call what cbor2.loads returned; the result is another
\* record.
Encoding == cstage = "input" /\ cstage' = "encoded"
Decoding == cstage \in {"encoded", "rx"} /\ cstage' \in {"decoded", "rx_decoded"}

PastFilters ==
  cstage \in {"rx", "rx_decoded", "rx_logged", "rx_error", "rx_ignored"}

MatchesChannel == channel = NoValue \/ packet.channel = channel
MatchesSource ==
  \/ source_device_id = NoValue
  \/ source_id.ok /\ packet.from = source_id.v

C24_OnlyMatchingPackets ==
  /\ PastFilters => (MatchesChannel /\ MatchesSource)
  /\ (channel = NoValue /\ source_device_id = NoValue) =>
       cstage \notin {"rx_filtered", "rx_raised"}

\* C25: when the manager fires with a PAYLOAD_SUMMARY record while the
\* transport is connected, process_data hands the hex text of the frame to
\* the transport exactly once: as a direct message when target_device_id
\* is set, as a channel message when it is not.
C25_FrameSentOnce ==
  (Fired /\ run.raw = "summary" /\ run.connected) =>
    /\ Len(run.sends) = 1
    /\ run.sends[1].text = Hex(cbor_data)
    /\ run.sends[1].kind =
         (IF target_device_id # NoValue THEN "direct" ELSE "channel")

\* C26: stop() flushes before it disconnects: when stop() has returned, an
\* item that was buffered and not yet processed when it was called has been
\* handed to the consumer before the disconnect, and the manager is Idle.
C26_StopFlushesFirst ==
  stop_pc = "done" => (~stop_owes /\ Idle)

\* C27: in the bridge the consumer never raises into the manager: every
\* run of process_data returns normally, whatever the datagram and the
\* transport do, so every invocation is followed by the reset of lines
\* 61-63 in the thread that fired.
C27_ConsumerNeverRaises ==
  Fired => /\ run.returned
           /\ fire.ok
           /\ pc[fire.th] = "L61"

C27_Witness ==
  /\ Fired /\ fire.ok
  /\ run.raw = "list" /\ run.raised = "AttributeError" /\ run.returned
  /\ pc[fire.th] = "L61"

=============================================================================
